---- MODULE Spec2Model ----
(***************************************************************************)
(* Model of the vector-search core of the pathology search application:    *)
(*   - the worker host            (public/searchWorker.js)                  *)
(*   - the request-handler host   (lib/vectorSearch.ts, unnamed/part_004)   *)
(*   - the worker client          (src/components/SearchProvider.tsx)       *)
(*                                                                         *)
(* Text is a sequence of one-character strings; a null or undefined text    *)
(* is NullText.  Numbers are exact rationals <<num, den>> in lowest terms   *)
(* (den > 0), NaN is <<0, 0>>; vector components are integers.  A variable  *)
(* that is null or an object is <<>> or <<object>>.                         *)
(***************************************************************************)
EXTENDS Integers, Sequences, FiniteSets, TLC

NullText == <<"null">>
NaN == <<0, 0>>
None == <<>>
Some(v) == <<v>>

(***************************************************************************)
(* Arithmetic                                                              *)
(***************************************************************************)
Abs(x) == IF x < 0 THEN -x ELSE x

RECURSIVE Gcd(_, _)
Gcd(a, b) == IF b = 0 THEN a ELSE Gcd(b, a % b)

\* The rational n/d in lowest terms with a positive denominator.
Rat(n, d) ==
    LET s == IF d < 0 THEN -1 ELSE 1
        g == Gcd(Abs(n), Abs(d))
    IN  <<(s * n) \div g, (s * d) \div g>>

IsNaN(x) == x[2] = 0

RAdd(x, y) ==
    IF IsNaN(x) \/ IsNaN(y) THEN NaN
    ELSE Rat(x[1] * y[2] + y[1] * x[2], x[2] * y[2])

RLess(x, y) == x[1] * y[2] < y[1] * x[2]

\* Math.min: NaN if either argument is NaN.
MathMinDropped(x, y) == x
MathMin(x, y) ==
    IF IsNaN(x) \/ IsNaN(y) THEN NaN
    ELSE IF RLess(y, x) THEN y ELSE x

\* Math.sqrt on the integers the model meets: every sum of squares the
\* inputs produce is a perfect square (the CHOOSE is undefined otherwise).
MathSqrt(n) == CHOOSE r \in 0..n : r * r = n

\* Math.fround on an integer: exact below 2^24, else rounded to the nearest
\* multiple of 2^k (ties to even), k the number of bits beyond 24.
Fround(x) ==
    LET a == Abs(x)
    IN  IF a < 16777216 THEN x
        ELSE LET k   == CHOOSE j \in 1..7 :
                            16777216 * (2 ^ (j - 1)) <= a /\ a < 16777216 * (2 ^ j)
                 u   == 2 ^ k
                 lo  == (a \div u) * u
                 r   == a - lo
                 up  == IF 2 * r < u THEN lo
                        ELSE IF 2 * r > u THEN lo + u
                        ELSE IF (lo \div u) % 2 = 0 THEN lo ELSE lo + u
             IN  IF x < 0 THEN -up ELSE up

(***************************************************************************)
(* Text                                                                    *)
(***************************************************************************)
IsSpace(c) == c \in {" ", "\t", "\n"}

LowerChar(c) ==
    CASE c = "A" -> "a"
      [] c = "B" -> "b"
      [] c = "C" -> "c"
      [] c = "D" -> "d"
      [] OTHER -> c

\* String.prototype.toLowerCase
ToLowerCase(s) == [i \in 1..Len(s) |-> LowerChar(s[i])]

\* String.prototype.includes
Includes(hay, needle) ==
    \E i \in 0..(Len(hay) - Len(needle)) :
        SubSeq(hay, i + 1, i + Len(needle)) = needle

\* query.trim().length === 0
TrimIsEmpty(s) == \A i \in 1..Len(s) : IsSpace(s[i])

\* s.split(/\s+/): the maximal runs of non-space characters, with an empty
\* first (last) piece when s starts (ends) with white space; "" gives [""].
RECURSIVE SplitFrom(_, _, _)
SplitFrom(s, i, cur) ==
    IF i > Len(s) THEN <<cur>>
    ELSE IF IsSpace(s[i])
         THEN IF i > 1 /\ IsSpace(s[i - 1])
              THEN SplitFrom(s, i + 1, cur)
              ELSE <<cur>> \o SplitFrom(s, i + 1, <<>>)
         ELSE SplitFrom(s, i + 1, Append(cur, s[i]))

SplitWhitespace(s) == SplitFrom(s, 1, <<>>)

\* Array.prototype.filter
RECURSIVE SelectSeqLong(_)
SelectSeqLong(ws) ==
    IF ws = <<>> THEN <<>>
    ELSE IF Len(Head(ws)) > 2
         THEN <<Head(ws)>> \o SelectSeqLong(Tail(ws))
         ELSE SelectSeqLong(Tail(ws))

\* queryWords = query.toLowerCase().split(/\s+/).filter(w => w.length > 2)
QueryWords(query) == SelectSeqLong(SplitWhitespace(ToLowerCase(query)))

(***************************************************************************)
(* Keyword boost.  Weights are in hundredths (0.20 is 20).                 *)
(***************************************************************************)
W_extracted_diagnosis == 20
W_essential_diagnosis == 18
W_variant == 12
W_lineage == 10
W_meta_organ == 8
W_microscopic == 6
W_diagnosis == 15
W_organ == 5
W_system == 5
BoostCap == 35

\* for (const word of queryWords) if (fieldLower.includes(word)) matchBoost += weight
MatchBoostOncePerField(fieldLower, words, weight) ==
    IF \E i \in 1..Len(words) : Includes(fieldLower, words[i]) THEN weight ELSE 0
RECURSIVE MatchBoost(_, _, _)
MatchBoost(fieldLower, words, weight) ==
    IF words = <<>> THEN 0
    ELSE (IF Includes(fieldLower, Head(words)) THEN weight ELSE 0)
         + MatchBoost(fieldLower, Tail(words), weight)

\* checkField: a null, undefined or empty field gives 0.
checkField(fieldValue, queryWords, weight) ==
    IF fieldValue = NullText \/ fieldValue = <<>> THEN 0
    ELSE MatchBoost(ToLowerCase(fieldValue), queryWords, weight)

\* m = entry.metadata || {}; m.key is undefined when the key is absent.  A
\* record without metadata has the empty mapping.
MetaField(entry, key) ==
    IF key \in DOMAIN entry.metadata THEN entry.metadata[key] ELSE NullText

\* The nine checkField calls, summed, in hundredths, before the cap.
BoostSum(entry, queryWords) ==
      checkField(MetaField(entry, "extracted_diagnosis"), queryWords, W_extracted_diagnosis)
    + checkField(MetaField(entry, "essential_diagnosis"), queryWords, W_essential_diagnosis)
    + checkField(MetaField(entry, "variant"), queryWords, W_variant)
    + checkField(MetaField(entry, "lineage"), queryWords, W_lineage)
    + checkField(MetaField(entry, "organ"), queryWords, W_meta_organ)
    + checkField(MetaField(entry, "microscopic"), queryWords, W_microscopic)
    + checkField(entry.diagnosis, queryWords, W_diagnosis)
    + checkField(entry.organ, queryWords, W_organ)
    + checkField(entry.system, queryWords, W_system)

\* Server: calculateKeywordBoost; Math.min(boost, 0.35).
calculateKeywordBoost(entry, queryWords) ==
    LET b == BoostSum(entry, queryWords)
    IN  Rat(IF b < BoostCap THEN b ELSE BoostCap, 100)

\* Worker: the boost block inlined in search.
WorkerBoostUncapped(entry, queryWords) == Rat(BoostSum(entry, queryWords), 100)
WorkerBoost(entry, queryWords) ==
    LET b == BoostSum(entry, queryWords)
    IN  Rat(IF b < BoostCap THEN b ELSE BoostCap, 100)

(***************************************************************************)
(* Similarity                                                              *)
(***************************************************************************)
RECURSIVE SumTo(_, _)
SumTo(f, n) == IF n = 0 THEN 0 ELSE f[n] + SumTo(f, n - 1)

\* Worker: cosineSimilarityFlat(queryVec, vectorsFlat, idx, dim); idx from 0.
\* Divides by the record vector's magnitude only.
cosineSimilarityFlat(queryVec, vectorsFlat, idx, d) ==
    LET base == idx * d
    IN  \* queryVec[i] or vectorsFlat[base + i] undefined: the products are NaN
        IF d > Len(queryVec) \/ base + d > Len(vectorsFlat) THEN NaN
        ELSE LET v    == [i \in 1..d |-> vectorsFlat[base + i]]
                 dot  == SumTo([i \in 1..d |-> queryVec[i] * v[i]], d)
                 sq   == MathSqrt(SumTo([i \in 1..d |-> v[i] * v[i]], d))
                 magA == IF sq = 0 THEN 1 ELSE sq
             IN  Rat(dot, magA)

\* Server: cosineSimilarity(vecA, vecB), vecA the query, vecB the record's
\* vector.  Loops over vecA's length and divides by both magnitudes.
cosineSimilarity(vecA, vecB) ==
    LET n == Len(vecA)
    IN  \* vecB[i] undefined: the products are NaN
        IF n > Len(vecB) THEN NaN
        ELSE LET b    == [i \in 1..n |-> vecB[i]]
                 dot  == SumTo([i \in 1..n |-> vecA[i] * b[i]], n)
                 sqA  == MathSqrt(SumTo([i \in 1..n |-> vecA[i] * vecA[i]], n))
                 sqB  == MathSqrt(SumTo([i \in 1..n |-> b[i] * b[i]], n))
                 magA == IF sqA = 0 THEN 1 ELSE sqA
                 magB == IF sqB = 0 THEN 1 ELSE sqB
             IN  Rat(dot, magA * magB)

(***************************************************************************)
(* PCA projection                                                          *)
(***************************************************************************)
\* centered = fullVector[i] - mean[i]; reduced[i] = sum_j centered[j] * components[i][j]
applyPCA(fullVector, model) ==
    LET n        == Len(fullVector)
        centered == [j \in 1..n |-> fullVector[j] - model.mean[j]]
    IN  [i \in 1..model.n_components |->
            SumTo([j \in 1..n |-> centered[j] * model.components[i][j]], n)]

(***************************************************************************)
(* Ranking                                                                 *)
(***************************************************************************)
One == <<1, 1>>

\* The comparator (a, b) => b.similarity - a.similarity is positive exactly
\* when b is strictly greater; a NaN difference counts as 0.
ComparatorNotNegative(a, b) ==
    /\ ~IsNaN(a.similarity)
    /\ ~IsNaN(b.similarity)
    /\ ~RLess(b.similarity, a.similarity)
ComparatorPositive(a, b) ==
    /\ ~IsNaN(a.similarity)
    /\ ~IsNaN(b.similarity)
    /\ RLess(a.similarity, b.similarity)

\* Array.prototype.sort is stable: x goes before the first element the
\* comparator puts strictly after it.
RECURSIVE InsertSorted(_, _)
InsertSorted(sorted, x) ==
    IF sorted = <<>> THEN <<x>>
    ELSE IF ComparatorPositive(Head(sorted), x)
         THEN <<x>> \o sorted
         ELSE <<Head(sorted)>> \o InsertSorted(Tail(sorted), x)

RECURSIVE SortScores(_)
SortScores(scores) ==
    IF scores = <<>> THEN <<>>
    ELSE InsertSorted(SortScores(SubSeq(scores, 1, Len(scores) - 1)),
                      scores[Len(scores)])

\* Array.prototype.slice(0, limit); a negative limit counts from the end.
Slice(s, limit) ==
    LET e == IF limit < 0 THEN (IF Len(s) + limit < 0 THEN 0 ELSE Len(s) + limit)
             ELSE (IF limit > Len(s) THEN Len(s) ELSE limit)
    IN  SubSeq(s, 1, e)

\* Worker: the scoring loop, sort, slice and result projection of search.
\* text, site and the other display fields are copied unchanged with id.
WorkerRank(qv, query, limit, ents, vecs, n, d) ==
    LET queryWords == QueryWords(query)
        scores == [i \in 1..n |->
                     [idx |-> i - 1,
                      similarity |->
                          MathMin(RAdd(cosineSimilarityFlat(qv, vecs, i - 1, d),
                                       WorkerBoost(ents[i], queryWords)), One)]]
        top == Slice(SortScores(scores), limit)
    IN  [k \in 1..Len(top) |->
            [id |-> ents[top[k].idx + 1].id, similarity |-> top[k].similarity]]

\* Server: the scoring map, sort, slice and result projection of
\* performVectorSearch.
ServerRank(queryVector, query, limit, db) ==
    LET queryWords == QueryWords(query)
        scores == [i \in 1..Len(db) |->
                     [idx |-> i - 1,
                      similarity |->
                          MathMin(RAdd(cosineSimilarity(queryVector, db[i].vector),
                                       calculateKeywordBoost(db[i], queryWords)), One)]]
        topScores == Slice(SortScores(scores), limit)
    IN  [k \in 1..Len(topScores) |->
            [id |-> db[topScores[k].idx + 1].id,
             similarity |-> topScores[k].similarity]]

\* !query || query.trim().length === 0
IsEmptyQuery(query) == query = NullText \/ query = <<>> \/ TrimIsEmpty(query)

(***************************************************************************)
(* Bounds and inputs                                                       *)
(***************************************************************************)
MaxMsgs == 2        \* messages delivered to the worker
MaxCalls == 3       \* performVectorSearch calls on the server
MaxSearches == 2    \* searches started through the SearchProvider
MaxRecords == 2     \* records of a corpus run through both pipelines
MaxPageSearches == 3 \* calls of performSearch on the search page
MaxTime == 40000    \* the clock stops here (ms)
TickMs == 10000     \* the clock's step (ms)

T_abc == <<"a", "b", "c">>
T_ABC_d == <<"A", "B", "C", " ", "d">>
T_xabcx == <<"x", "a", "b", "c", "x">>
T_bcd == <<"b", "c", "d">>
T_abc_bcd == <<"a", "b", "c", " ", "b", "c", "d">>
T_blank == <<" ", "\t">>
T_ab == <<"a", "b">>
T_abc_abc == <<"a", "b", "c", "\t", " ", "A", "B", "C">>

NoMeta == [k \in {} |-> NullText]

\* Corpus files: arrays of { id, diagnosis, organ, system, vector, metadata }
\* (text and site are display fields that no computation reads).
EntryA == [id |-> 11, diagnosis |-> <<>>, organ |-> NullText, system |-> <<>>,
           vector |-> <<3, 4>>,
           metadata |-> [extracted_diagnosis |-> T_xabcx]]
EntryB == [id |-> 12, diagnosis |-> T_ABC_d, organ |-> T_bcd, system |-> NullText,
           vector |-> <<0, 2>>, metadata |-> NoMeta]
EntryC == [id |-> 13, diagnosis |-> NullText, organ |-> NullText, system |-> NullText,
           vector |-> <<0, 0>>, metadata |-> NoMeta]
EntryD == [id |-> 14, diagnosis |-> T_bcd, organ |-> <<>>, system |-> T_abc_bcd,
           vector |-> <<-3, 4>>,
           metadata |-> [extracted_diagnosis |-> T_abc_bcd, essential_diagnosis |-> T_abc,
                         variant |-> T_bcd, lineage |-> NullText]]
EntryE == [id |-> 15, diagnosis |-> T_abc, organ |-> NullText, system |-> NullText,
           vector |-> <<2>>, metadata |-> NoMeta]

Corpus2 == <<EntryA, EntryB, EntryC>>     \* vectors of length 2
Corpus1 == <<EntryE>>                     \* vectors of length 1
Corpus0 == <<>>                           \* the empty corpus

\* PCA files: { mean, components, n_components }, native dimension 2.
Pca2 == [mean |-> <<0, 0>>, components |-> <<<<1, 0>>, <<0, 1>>>>, n_components |-> 2]
Pca1 == [mean |-> <<1, 0>>, components |-> <<<<1, 1>>>>, n_components |-> 1]

Pca2s == [mean |-> <<0, 0>>, components |-> <<<<0, -1>>, <<1, 0>>>>, n_components |-> 2]

Unreadable == <<>>          \* a file that is missing or malformed
File(content) == <<content>>

\* The embedding capability: text to a vector of the native dimension.
Embed(text) ==
    CASE text = T_abc -> <<3, 4>>
      [] text = T_abc_bcd -> <<0, 1>>
      [] OTHER -> <<4, 3>>

\* The environments a host starts in: the two files and the embedding model's
\* source ("ok", "noLibrary": the import fails, "noModel": pipeline() fails).
Healthy == [db |-> File(Corpus2), pca |-> File(Pca2), model |-> "ok"]
EnvConfigs ==
    { Healthy,
      [db |-> Unreadable, pca |-> File(Pca2), model |-> "ok"],
      [db |-> File(Corpus2), pca |-> Unreadable, model |-> "ok"],
      [db |-> File(Corpus2), pca |-> File(Pca2), model |-> "noLibrary"],
      [db |-> File(Corpus2), pca |-> File(Pca2), model |-> "noModel"],
      [db |-> File(Corpus2), pca |-> File(Pca1), model |-> "ok"],
      [db |-> File(Corpus1), pca |-> File(Pca2), model |-> "ok"],
      [db |-> File(Corpus0), pca |-> File(Pca2), model |-> "ok"] }

\* Search requests: a query and a limit, <<n>> or <<>> when none is given.
Requests ==
    { [query |-> T_abc, limit |-> Some(2)],
      [query |-> T_abc_bcd, limit |-> None],
      [query |-> T_blank, limit |-> None] }

Undefined == -1
DefaultLimit == 10

\* Worker listener: msg.limit || 10 (an absent limit and 0 are both falsy).
WorkerLimit(l) == IF l = None THEN DefaultLimit
                  ELSE IF l[1] = 0 THEN DefaultLimit ELSE l[1]

\* performVectorSearch(query, limit = 10): the default stands in for an
\* absent argument only.
ServerLimit(l) == IF l = None THEN DefaultLimit ELSE l[1]

\* GET: parseInt(searchParams.get('limit') || '10', 10), for a parameter that
\* is absent or a decimal integer.
GETLimit(p) == IF p = None THEN DefaultLimit ELSE p[1]
SearchTimeoutMs == 30000

VARIABLES
    \* the environment: the static files and the model source
    dbFile, pcaFile, modelSrc,
    \* searchWorker.js module state
    entries, vectors, numEntries, dim, initialized, extractor, pcaModel,
    TransformersModule,
    \* the worker's messages: received (each with its handler's position) and posted
    msgs, outbox,
    \* load counters of the worker
    loadDBCalls, loadPCACalls, pipelineCalls,
    \* vectorSearch.ts module state (pcaModel and initialized of that module
    \* are pcaModelSrv and initializedSrv); initPromise is 0 for null, else the
    \* index in promises of the promise it holds
    vectorDB, pcaModelSrv, embedder, initializedSrv, initPromise,
    \* every promise the async initialization function has returned, with the
    \* position of its body; the performVectorSearch calls
    promises, calls,
    \* load counters of the server
    dbReads, pcaReads, pipelineCreates,
    \* SearchProvider: workerRef.current (set or null), the two pieces of React
    \* state, searchCallbacksRef.current (its keys) and searchIdRef.current
    workerRef, workerReady, initStatus, searchCallbacks, searchIdRef,
    \* the promise and the timer of every search started, by searchId + 1
    searches,
    \* messages posted to the worker, the clock (ms), and the number of the
    \* worker's messages that w.onmessage has handled
    toWorker, now, handled,
    \* one search run through both pipelines: the corpus file, the PCA file,
    \* the query, the limit of the search message and of the GET request
    \* (<<>> when absent), and what each host returned (<<>> before it ran)
    pipeCorpus, pipePca, pipeQuery, pipeLimit, workerResult, serverResult,
    \* the response of the GET handler to the same request (<<>> before it ran)
    httpResponse,
    \* the search page (page.tsx): the state hooks query, searchMode, results,
    \* loading and searched, workerReady as useSearch() gives it, the pending
    \* debounce timer (<<>> when none, else the query it will search for) and
    \* the calls of performSearch in the order they were made
    pageQuery, searchMode, pageWorkerReady, pageResults, pageLoading, pageSearched,
    timeoutId, pageSearches

envVars == <<dbFile, pcaFile, modelSrc>>
workerStore == <<entries, vectors, numEntries, dim, initialized, extractor, pcaModel,
                 TransformersModule>>
workerVars == <<workerStore, msgs, outbox, loadDBCalls, loadPCACalls, pipelineCalls>>
serverStore == <<vectorDB, pcaModelSrv, embedder, initializedSrv, initPromise>>
serverVars == <<serverStore, promises, calls, dbReads, pcaReads, pipelineCreates>>
pipeVars == <<pipeCorpus, pipePca, pipeQuery, pipeLimit, workerResult, serverResult,
              httpResponse>>
pageVars == <<pageQuery, searchMode, pageWorkerReady, pageResults, pageLoading,
              pageSearched, timeoutId, pageSearches>>
providerVars == <<workerRef, workerReady, initStatus, searchCallbacks, searchIdRef,
                  searches, toWorker, now, handled>>

(***************************************************************************)
(* The worker host: searchWorker.js                                        *)
(*                                                                         *)
(* The message listener is an async function: each await is a point where  *)
(* the handler of one message is suspended and the event loop may deliver  *)
(* the next message or resume another handler.  A handler's position is    *)
(* pc: "queued" (not yet delivered), "loadDB", "loadPCA", "import",        *)
(* "pipeline", "embed" (the await it is suspended at), "done" (returned)   *)
(* or "rejected" (an exception left the listener).  ctx is the caller of   *)
(* the awaited load: the init branch, the search branch's inline           *)
(* initialization, or textToVector.                                        *)
(***************************************************************************)
WorkerInit ==
    /\ entries = None
    /\ vectors = None
    /\ numEntries = 0
    /\ dim = 0
    /\ initialized = FALSE
    /\ extractor = FALSE
    /\ pcaModel = None
    /\ TransformersModule = FALSE
    /\ msgs = <<>>
    /\ outbox = <<>>
    /\ loadDBCalls = 0
    /\ loadPCACalls = 0
    /\ pipelineCalls = 0

\* self.postMessage(m) while handling message h; re records h.
Post(out, h, m) == Append(out, [re |-> h, msg |-> m])

StatusMsgSameText(text) == [type |-> "status", message |-> "Loading database..."]
StatusMsg(text) == [type |-> "status", message |-> text]
InitedOkNoCount(n) == [type |-> "inited", status |-> "ok", numEntries |-> 0]
InitedOk(n) == [type |-> "inited", status |-> "ok", numEntries |-> n]
\* The init branch's catch: { type: 'inited', status: 'error', error }.
InitedReportsOk(err) == InitedOk(0)
InitedError(err) == [type |-> "inited", status |-> "error", error |-> err]

\* msg.searchId as the receiver reads it: undefined when the property is absent.
SearchIdOf(m) == IF "searchId" \in DOMAIN m THEN m.searchId ELSE Undefined

\* The reply of the search branch: { type: 'results', query: q, results }.
ResultsReply(m, res) == [type |-> "results", query |-> m.query, results |-> res]
\* The reply of the search branch's catch: { type: 'results', error }.
ErrorReply(m, err) == [type |-> "results", error |-> err]

\* loadDB's second then-callback: entries and the flat Float32Array.
RECURSIVE Flatten(_, _, _)
Flatten(data, n, d) ==
    IF n = 0 THEN <<>>
    ELSE Flatten(data, n - 1, d) \o [j \in 1..d |-> Fround(data[n].vector[j])]

LoadedEntries(data) ==
    [i \in 1..Len(data) |->
        [id |-> data[i].id, diagnosis |-> data[i].diagnosis, organ |-> data[i].organ,
         system |-> data[i].system, metadata |-> data[i].metadata]]
LoadedDim(data) == IF Len(data) = 0 THEN 0 ELSE Len(data[1].vector)
LoadedVectorsFirstRow(data) ==
    Flatten(data, IF Len(data) = 0 THEN 0 ELSE 1, LoadedDim(data))
LoadedVectors(data) == Flatten(data, Len(data), LoadedDim(data))

\* textToVector after the extractor's output: centre and project.
WorkerProject(text, model) == applyPCA(Embed(text), model)

\* The results of the `results` messages posted so far, concatenated.
RECURSIVE PostedResults(_)
PostedResults(out) ==
    IF out = <<>> THEN <<>>
    ELSE PostedResults(SubSeq(out, 1, Len(out) - 1))
         \o (IF "results" \in DOMAIN out[Len(out)].msg THEN out[Len(out)].msg.results
             ELSE <<>>)

\* search(q, limit) once the query vector is known.
searchKeepsScores(m) ==
    PostedResults(outbox)
    \o WorkerRank(WorkerProject(m.query, pcaModel[1]), m.query, WorkerLimit(m.limit),
                  entries[1], vectors[1], numEntries, dim)
search(m) ==
    LET limit == WorkerLimit(m.limit)
    IN  WorkerRank(WorkerProject(m.query, pcaModel[1]), m.query, limit,
                   entries[1], vectors[1], numEntries, dim)

\* initEmbedder with extractor unset: import the library unless it is cached,
\* then call pipeline().
EmbedderEntry(tm) == IF tm THEN "pipeline" ELSE "import"

\* The position the search branch reaches from `const q = msg.query || ''`
\* without being suspended: its reply (empty query), or the first await of
\* textToVector.
SearchEntry(m, ext, tm) ==
    IF IsEmptyQuery(m.query) THEN "done"
    ELSE IF ext THEN "embed" ELSE EmbedderEntry(tm)

At(h, pc, ctx) == [msgs EXCEPT ![h].pc = pc, ![h].ctx = ctx]

\* The search branch from `const q` on, with extractor ext and library tm.
RunSearch(h, out, ext, tm) ==
    LET m  == msgs[h]
        pc == SearchEntry(m, ext, tm)
    IN  /\ msgs' = At(h, pc, "textToVector")
        /\ outbox' = IF pc = "done" THEN Post(out, h, ResultsReply(m, <<>>)) ELSE out
        /\ pipelineCalls' = pipelineCalls + (IF pc = "pipeline" THEN 1 ELSE 0)

\* An awaited step of handler h failed with err.
Fail(h, out, err) ==
    LET ctx == msgs[h].ctx
    IN  /\ msgs' = At(h, IF ctx = "search" THEN "rejected" ELSE "done", ctx)
        /\ outbox' = CASE ctx = "init" -> Post(out, h, InitedError(err))
                       [] ctx = "search" -> out
                       [] OTHER -> Post(out, h, ErrorReply(msgs[h], err))

\* The embedder is ready: `initialized = true` and what follows it.
Ready(h, out, ext, tm) ==
    LET ctx == msgs[h].ctx
    IN  CASE ctx = "init" ->
               /\ initialized' = TRUE
               /\ msgs' = At(h, "done", ctx)
               /\ outbox' = Post(out, h, InitedOk(numEntries))
               /\ UNCHANGED pipelineCalls
          [] ctx = "search" ->
               /\ initialized' = TRUE
               /\ RunSearch(h, out, ext, tm)
          [] OTHER ->
               /\ UNCHANGED initialized
               /\ msgs' = At(h, "embed", ctx)
               /\ outbox' = out
               /\ UNCHANGED pipelineCalls

\* The environment posts a message to the worker.
WSend ==
    /\ Len(msgs) < MaxMsgs
    /\ \/ msgs' = Append(msgs, [type |-> "init", query |-> NullText, limit |-> None,
                                searchId |-> Undefined, pc |-> "queued", ctx |-> "init"])
       \/ \E r \in Requests :
            msgs' = Append(msgs, [type |-> "search", query |-> r.query, limit |-> r.limit,
                                  searchId |-> Cardinality({i \in 1..Len(msgs) :
                                                              msgs[i].type = "search"}),
                                  pc |-> "queued", ctx |-> "search"])
    /\ UNCHANGED <<envVars, workerStore, outbox, loadDBCalls, loadPCACalls, pipelineCalls>>

\* The listener starts on the oldest undelivered message and runs to its
\* first await.
WDeliver(h) ==
    /\ h \in 1..Len(msgs)
    /\ msgs[h].pc = "queued"
    /\ \A g \in 1..(h - 1) : msgs[g].pc # "queued"
    /\ IF ~initialized
       THEN /\ msgs' = At(h, "loadDB", msgs[h].ctx)
            /\ outbox' = Post(outbox, h,
                              StatusMsg(IF msgs[h].type = "init" THEN "Loading database..."
                                        ELSE "Initializing..."))
            /\ loadDBCalls' = loadDBCalls + 1
            /\ UNCHANGED pipelineCalls
       ELSE /\ UNCHANGED loadDBCalls
            /\ IF msgs[h].type = "init"
               THEN /\ msgs' = At(h, "done", "init")
                    /\ outbox' = Post(outbox, h, InitedOk(numEntries))
                    /\ UNCHANGED pipelineCalls
               ELSE RunSearch(h, outbox, extractor, TransformersModule)
    /\ UNCHANGED <<envVars, workerStore, loadPCACalls>>

\* await loadDB() settles.
WLoadDBDone(h) ==
    /\ h \in 1..Len(msgs)
    /\ msgs[h].pc = "loadDB"
    /\ IF dbFile # Unreadable
       THEN LET data == dbFile[1]
            IN  /\ entries' = Some(LoadedEntries(data))
                /\ numEntries' = Len(data)
                /\ dim' = LoadedDim(data)
                /\ vectors' = Some(LoadedVectors(data))
                /\ msgs' = At(h, "loadPCA", msgs[h].ctx)
                /\ outbox' = IF msgs[h].ctx = "init"
                             THEN Post(outbox, h, StatusMsg("Loading PCA model..."))
                             ELSE outbox
                /\ loadPCACalls' = loadPCACalls + 1
       ELSE /\ Fail(h, outbox, "db")
            /\ UNCHANGED <<entries, numEntries, dim, vectors, loadPCACalls>>
    /\ UNCHANGED <<envVars, initialized, extractor, pcaModel, TransformersModule,
                   loadDBCalls, pipelineCalls>>

\* await loadPCA() settles; on success initEmbedder() is called.
WLoadPCADone(h) ==
    /\ h \in 1..Len(msgs)
    /\ msgs[h].pc = "loadPCA"
    /\ IF pcaFile # Unreadable
       THEN LET data == pcaFile[1]
                out  == IF msgs[h].ctx = "init"
                        THEN Post(outbox, h, StatusMsg("Loading embedding model..."))
                        ELSE outbox
            IN  /\ pcaModel' = Some([components |-> data.components, mean |-> data.mean,
                                     n_components |-> data.n_components])
                /\ IF extractor
                   THEN Ready(h, out, extractor, TransformersModule)
                   ELSE /\ msgs' = At(h, EmbedderEntry(TransformersModule), msgs[h].ctx)
                        /\ outbox' = out
                        /\ pipelineCalls' = pipelineCalls
                                            + (IF TransformersModule THEN 1 ELSE 0)
                        /\ UNCHANGED initialized
       ELSE /\ Fail(h, outbox, "pca")
            /\ UNCHANGED <<pcaModel, initialized, pipelineCalls>>
    /\ UNCHANGED <<envVars, entries, vectors, numEntries, dim, extractor,
                   TransformersModule, loadDBCalls, loadPCACalls>>

\* initTransformers: the dynamic import settles; on success pipeline() is called.
WImportDone(h) ==
    /\ h \in 1..Len(msgs)
    /\ msgs[h].pc = "import"
    /\ IF modelSrc # "noLibrary"
       THEN /\ TransformersModule' = TRUE
            /\ msgs' = At(h, "pipeline", msgs[h].ctx)
            /\ pipelineCalls' = pipelineCalls + 1
            /\ UNCHANGED outbox
       ELSE /\ Fail(h, outbox, "import")
            /\ UNCHANGED <<TransformersModule, pipelineCalls>>
    /\ UNCHANGED <<envVars, entries, vectors, numEntries, dim, initialized, extractor,
                   pcaModel, loadDBCalls, loadPCACalls>>

\* initEmbedder: transformers.pipeline(...) settles.
WPipelineDone(h) ==
    /\ h \in 1..Len(msgs)
    /\ msgs[h].pc = "pipeline"
    /\ IF modelSrc = "ok"
       THEN /\ extractor' = TRUE
            /\ Ready(h, outbox, TRUE, TransformersModule)
       ELSE /\ Fail(h, outbox, "pipeline")
            /\ UNCHANGED <<extractor, initialized, pipelineCalls>>
    /\ UNCHANGED <<envVars, entries, vectors, numEntries, dim, pcaModel,
                   TransformersModule, loadDBCalls, loadPCACalls>>

\* textToVector: the extractor's call settles; then the projection, the scan,
\* the sort and the reply, or the catch's reply.
WEmbedDoneDropsModel(h) ==
    /\ h \in 1..Len(msgs)
    /\ msgs[h].pc = "embed"
    /\ \E ok \in BOOLEAN :
         /\ msgs' = At(h, "done", msgs[h].ctx)
         /\ extractor' = (ok /\ extractor)
         /\ outbox' =
              IF ~ok THEN Post(outbox, h, ErrorReply(msgs[h], "embedding"))
              ELSE IF pcaModel = None
                   THEN Post(outbox, h, ErrorReply(msgs[h], "PCA model not loaded"))
                   ELSE Post(outbox, h, ResultsReply(msgs[h], search(msgs[h])))
    /\ UNCHANGED <<envVars, entries, vectors, numEntries, dim, initialized, pcaModel,
                   TransformersModule, loadDBCalls, loadPCACalls, pipelineCalls>>
WEmbedDone(h) ==
    /\ h \in 1..Len(msgs)
    /\ msgs[h].pc = "embed"
    /\ \E ok \in BOOLEAN :
         /\ msgs' = At(h, "done", msgs[h].ctx)
         /\ outbox' =
              IF ~ok THEN Post(outbox, h, ErrorReply(msgs[h], "embedding"))
              ELSE IF pcaModel = None
                   THEN Post(outbox, h, ErrorReply(msgs[h], "PCA model not loaded"))
                   ELSE Post(outbox, h, ResultsReply(msgs[h], search(msgs[h])))
    /\ UNCHANGED <<envVars, workerStore, loadDBCalls, loadPCACalls, pipelineCalls>>

(***************************************************************************)
(* The request-handler host: vectorSearch.ts                               *)
(*                                                                         *)
(* One performVectorSearch call per request.  A call is suspended at       *)
(* "awaitInit" (await initPromise, lines 929 and 961) or "embed" (await    *)
(* embedder(...)), or is "done" with its outcome.  The body of the async   *)
(* function assigned to initPromise runs synchronously through both        *)
(* readFileSync calls and is suspended at "import" and at "pipeline"; it   *)
(* ends "fulfilled" or "rejected".                                         *)
(***************************************************************************)
ServerInit ==
    /\ vectorDB = None
    /\ pcaModelSrv = None
    /\ embedder = FALSE
    /\ initializedSrv = FALSE
    /\ initPromise = 0
    /\ promises = <<>>
    /\ calls = <<>>
    /\ dbReads = 0
    /\ pcaReads = 0
    /\ pipelineCreates = 0

Pending == [kind |-> "pending"]
Threw(err) == [kind |-> "error", error |-> err]
Returned(res) == [kind |-> "results", results |-> res]

\* `if (initPromise)`: a call finding a promise awaits it and starts no load.
JoinsNever(p) == FALSE
Joins(p) == p # 0

\* `await initPromise` of a rejected promise throws its reason.
RethrowsNever(p) == FALSE
Rethrows(p) == p.state = "rejected"

\* performVectorSearch after `await initializeVectorDB()` returned: the
\* outcome it ends with at once, or Pending when it is suspended on the
\* embedder.
AfterInit(r, db, pca, emb) ==
    IF db = None THEN Threw("Vector database not loaded")
    ELSE IF IsEmptyQuery(r.query) THEN Returned(<<>>)
    ELSE IF ~emb \/ pca = None THEN Threw("Vector search not initialized")
    ELSE Pending

Continue(c, r, db, pca, emb) ==
    LET o == AfterInit(r, db, pca, emb)
    IN  [c EXCEPT !.pc = IF o = Pending THEN "embed" ELSE "done", !.outcome = o]

NewCall(r) ==
    [query |-> r.query, limit |-> r.limit, pc |-> "awaitInit", awaits |-> 0,
     outcome |-> Pending,
     healthy |-> <<dbFile, pcaFile, modelSrc>> = <<Healthy.db, Healthy.pca, Healthy.model>>]

\* A request calls performVectorSearch(query, limit); the call runs to its
\* first await.
SCall ==
    /\ Len(calls) < MaxCalls
    /\ \E r \in Requests :
         IF initializedSrv
         THEN /\ calls' = Append(calls, Continue(NewCall(r), r, vectorDB, pcaModelSrv, embedder))
              /\ UNCHANGED <<serverStore, promises, dbReads, pcaReads, pipelineCreates>>
         ELSE IF Joins(initPromise)
         THEN /\ calls' = Append(calls, [NewCall(r) EXCEPT !.awaits = initPromise])
              /\ UNCHANGED <<serverStore, promises, dbReads, pcaReads, pipelineCreates>>
         ELSE \* the async function's body, to its first await or its throw
              /\ dbReads' = dbReads + 1
              /\ vectorDB' = IF dbFile # Unreadable THEN Some(dbFile[1]) ELSE vectorDB
              /\ pcaReads' = pcaReads + (IF dbFile # Unreadable THEN 1 ELSE 0)
              /\ pcaModelSrv' = IF dbFile # Unreadable /\ pcaFile # Unreadable
                                THEN Some(pcaFile[1]) ELSE pcaModelSrv
              /\ promises' = Append(promises,
                     IF dbFile = Unreadable THEN [state |-> "rejected", error |-> "db"]
                     ELSE IF pcaFile = Unreadable THEN [state |-> "rejected", error |-> "pca"]
                     ELSE [state |-> "import", error |-> "none"])
              /\ initPromise' = Len(promises) + 1
              /\ calls' = Append(calls, [NewCall(r) EXCEPT !.awaits = Len(promises) + 1])
              /\ UNCHANGED <<embedder, initializedSrv, pipelineCreates>>
    /\ UNCHANGED envVars

\* await import('@xenova/transformers') settles; on success pipeline() is called.
SImportDone(i) ==
    /\ i \in 1..Len(promises)
    /\ promises[i].state = "import"
    /\ IF modelSrc # "noLibrary"
       THEN /\ promises' = [promises EXCEPT ![i].state = "pipeline"]
            /\ pipelineCreates' = pipelineCreates + 1
       ELSE /\ promises' = [promises EXCEPT ![i] = [state |-> "rejected", error |-> "import"]]
            /\ UNCHANGED pipelineCreates
    /\ UNCHANGED <<envVars, serverStore, calls, dbReads, pcaReads>>

\* await pipeline(...) settles; on success `initialized = true`.
SPipelineDone(i) ==
    /\ i \in 1..Len(promises)
    /\ promises[i].state = "pipeline"
    /\ IF modelSrc = "ok"
       THEN /\ embedder' = TRUE
            /\ initializedSrv' = TRUE
            /\ promises' = [promises EXCEPT ![i].state = "fulfilled"]
       ELSE /\ promises' = [promises EXCEPT ![i] = [state |-> "rejected", error |-> "pipeline"]]
            /\ UNCHANGED <<embedder, initializedSrv>>
    /\ UNCHANGED <<envVars, vectorDB, pcaModelSrv, initPromise, calls, dbReads, pcaReads,
                   pipelineCreates>>

\* A call suspended on `await initPromise` resumes once the promise settled.
SResume(c) ==
    /\ c \in 1..Len(calls)
    /\ calls[c].pc = "awaitInit"
    /\ promises[calls[c].awaits].state \in {"fulfilled", "rejected"}
    /\ calls' = [calls EXCEPT ![c] =
                    IF Rethrows(promises[calls[c].awaits])
                    THEN [@ EXCEPT !.pc = "done",
                                   !.outcome = Threw(promises[calls[c].awaits].error)]
                    ELSE Continue(@, @, vectorDB, pcaModelSrv, embedder)]
    /\ UNCHANGED <<envVars, serverStore, promises, dbReads, pcaReads, pipelineCreates>>

\* performVectorSearch from the embedder's answer to its return.
performVectorSearch(c) ==
    LET limit == ServerLimit(c.limit)
    IN  ServerRank(applyPCA(Embed(c.query), pcaModelSrv[1]), c.query, limit, vectorDB[1])

\* await embedder(text, ...) settles; then the projection, the scan, the
\* sort and the return, or the embedder's exception.
SEmbedDone(c) ==
    /\ c \in 1..Len(calls)
    /\ calls[c].pc = "embed"
    /\ \E ok \in BOOLEAN :
         calls' = [calls EXCEPT ![c].pc = "done",
                                ![c].outcome = IF ok THEN Returned(performVectorSearch(calls[c]))
                                               ELSE Threw("embedding")]
    /\ UNCHANGED <<envVars, serverStore, promises, dbReads, pcaReads, pipelineCreates>>

(***************************************************************************)
(* The worker's client: SearchProvider.tsx                                 *)
(*                                                                         *)
(* The provider is handed the worker's messages one at a time.             *)
(* WorkerMessages lists the shapes of the worker protocol, among them the  *)
(* replies searchWorker.js posts, which carry no searchId.  A timer fires  *)
(* when the clock has reached its deadline, and the clock does not pass    *)
(* the deadline of a timer that has not fired.                             *)
(***************************************************************************)
ProviderInit ==
    /\ workerRef = FALSE
    /\ workerReady = FALSE
    /\ initStatus = "Initializing..."
    /\ searchCallbacks = {}
    /\ searchIdRef = 0
    /\ searches = <<>>
    /\ toWorker = <<>>
    /\ now = 0
    /\ handled = 0

WorkerMessages ==
    {StatusMsg("Loading database..."), InitedOk(3), InitedError("db"),
     ErrorReply(NullText, "embedding"),
     [type |-> "results", query |-> T_abc, results |-> <<>>]}
    \cup {[type |-> "results", searchId |-> id, results |-> <<>>] : id \in 0..(searchIdRef - 1)}
    \cup {[type |-> "results", searchId |-> id, error |-> "embedding"] :
            id \in 0..(searchIdRef - 1)}

\* The timeout callback's searchCallbacksRef.current.delete(searchId).
TimeoutKeeps(cb, id) == cb
TimeoutDeletes(cb, id) == cb \ {id}

\* The effect: new Worker(...), postMessage({ type: 'init' }), or its catch.
PMount ==
    /\ ~workerRef
    /\ initStatus # "Worker unavailable"
    /\ \/ /\ workerRef' = TRUE
          /\ toWorker' = Append(toWorker, [type |-> "init"])
          /\ UNCHANGED initStatus
       \/ /\ initStatus' = "Worker unavailable"
          /\ UNCHANGED <<workerRef, toWorker>>
    /\ UNCHANGED <<workerReady, searchCallbacks, searchIdRef, searches, now, handled>>

\* searchCallbacksRef.current.get(searchId): the key of the callback found
\* (<<>> when there is none).
GetOldest(cb, searchId) ==
    IF cb = {} THEN None ELSE Some(CHOOSE k \in cb : \A l \in cb : k <= l)
Get(cb, searchId) == IF searchId \in cb THEN Some(searchId) ELSE None

\* The body of w.onmessage for the message msg.
OnMessage(msg) ==
    LET id == SearchIdOf(msg)
        callback == Get(searchCallbacks, id)
    IN  /\ initStatus' =
             CASE msg.type = "status" -> msg.message
               [] msg.type = "inited" /\ msg.status = "ok" -> "Ready"
               [] msg.type = "inited" -> "Error loading database"
               [] OTHER -> initStatus
        /\ workerReady' = IF msg.type = "inited" /\ msg.status = "ok" THEN TRUE
                          ELSE workerReady
        /\ IF msg.type = "results" /\ callback # None
           THEN /\ searchCallbacks' = searchCallbacks \ {id}
                /\ searches' = [searches EXCEPT ![callback[1] + 1] =
                      [@ EXCEPT !.settles = @ + 1,
                                !.settledBy = id,
                                !.state = IF "error" \in DOMAIN msg THEN "rejected"
                                          ELSE "resolved",
                                !.reason = IF "error" \in DOMAIN msg THEN msg.error
                                           ELSE "results"]]
           ELSE /\ UNCHANGED searchCallbacks
                /\ searches' =
                     IF msg.type = "results" /\ id \in 0..(Len(searches) - 1)
                     THEN [searches EXCEPT ![id + 1].late = TRUE]
                     ELSE searches

\* w.onmessage on a message of the worker protocol.
POnMessage ==
    /\ workerRef
    /\ \E msg \in WorkerMessages : OnMessage(msg)
    /\ UNCHANGED <<workerRef, searchIdRef, toWorker, now, handled>>

\* The page's searches: the query typed, limit 24000.
PageRequests == {[query |-> T_abc, limit |-> Some(24000)]}

\* search(query, limit) with the worker ready (it throws 'Worker not ready'
\* otherwise, changing nothing).
PSearch ==
    /\ workerRef /\ workerReady
    /\ searchIdRef < MaxSearches
    /\ \E r \in PageRequests :
         toWorker' = Append(toWorker, [type |-> "search", query |-> r.query,
                                       limit |-> r.limit, searchId |-> searchIdRef])
    /\ searchIdRef' = searchIdRef + 1
    /\ searchCallbacks' = searchCallbacks \cup {searchIdRef}
    /\ searches' = Append(searches, [state |-> "pending", reason |-> "none", settles |-> 0,
                                     late |-> FALSE, settledBy |-> Undefined,
                                     start |-> now, timer |-> "armed",
                                     deadline |-> now + SearchTimeoutMs])
    /\ UNCHANGED <<workerRef, workerReady, initStatus, now, handled>>

\* The setTimeout callback of search id.
PTimeout(id) ==
    /\ id \in 0..(Len(searches) - 1)
    /\ searches[id + 1].timer = "armed"
    /\ now >= searches[id + 1].deadline
    /\ IF id \in searchCallbacks
       THEN /\ searchCallbacks' = TimeoutDeletes(searchCallbacks, id)
            /\ searches' = [searches EXCEPT ![id + 1] =
                  [@ EXCEPT !.timer = "fired", !.settles = @ + 1, !.state = "rejected",
                            !.reason = "Search timeout"]]
       ELSE /\ UNCHANGED searchCallbacks
            /\ searches' = [searches EXCEPT ![id + 1].timer = "fired"]
    /\ UNCHANGED <<workerRef, workerReady, initStatus, searchIdRef, toWorker, now, handled>>

\* Time passes, up to the next deadline.
PAdvance ==
    LET due == {searches[i].deadline : i \in {j \in 1..Len(searches) :
                                                 searches[j].timer = "armed"}}
        to  == now + TickMs
    IN  /\ now < MaxTime
        /\ \A d \in due : now < d
        /\ now' = IF \E d \in due : d < to
                  THEN CHOOSE d \in due : \A e \in due : d <= e
                  ELSE to
        /\ UNCHANGED <<workerRef, workerReady, initStatus, searchCallbacks, searchIdRef,
                       searches, toWorker, handled>>

(***************************************************************************)
(* One search through both pipelines, on the same corpus file, PCA file,   *)
(* query and limit                                                         *)
(***************************************************************************)
RecordPool == {EntryA, EntryB, EntryC, EntryD}

RECURSIVE SeqsUpTo(_, _)
SeqsUpTo(S, n) ==
    IF n = 0 THEN {<<>>}
    ELSE LET shorter == SeqsUpTo(S, n - 1)
         IN  shorter \cup {Append(q, x) : q \in {r \in shorter : Len(r) = n - 1}, x \in S}

PipeInit ==
    /\ pipeCorpus \in SeqsUpTo(RecordPool, MaxRecords)
    /\ pipePca \in {Pca2, Pca2s}
    /\ pipeQuery \in {T_abc, T_abc_bcd, T_abc_abc, T_ab, T_blank, <<>>}
    /\ pipeLimit \in {None} \cup {Some(k) : k \in 0..MaxRecords}
    /\ workerResult = None
    /\ serverResult = None
    /\ httpResponse = None

PipeIdle ==
    /\ pipeCorpus = <<>>
    /\ pipePca = Pca2
    /\ pipeQuery = <<>>
    /\ pipeLimit = None
    /\ workerResult = None
    /\ serverResult = None
    /\ httpResponse = None

\* searchWorker.js: loadDB, loadPCA, then the listener's search branch on a
\* message with this query and limit.
WorkerPipeline(data, model, query, limit) ==
    IF IsEmptyQuery(query) THEN <<>>
    ELSE WorkerRank(applyPCA(Embed(query), model), query, WorkerLimit(limit),
                    LoadedEntries(data), LoadedVectors(data), Len(data), LoadedDim(data))

\* vectorSearch.ts: initializeVectorDB, then performVectorSearch(query, limit).
ServerPipeline(data, model, query, limit) ==
    IF IsEmptyQuery(query) THEN <<>>
    ELSE ServerRank(applyPCA(Embed(query), model), query, ServerLimit(limit), data)

PipeWorker ==
    /\ workerResult = None
    /\ workerResult' = Some(WorkerPipeline(pipeCorpus, pipePca, pipeQuery, pipeLimit))
    /\ UNCHANGED <<pipeCorpus, pipePca, pipeQuery, pipeLimit, serverResult, httpResponse>>

PipeServer ==
    /\ serverResult = None
    /\ serverResult' = Some(ServerPipeline(pipeCorpus, pipePca, pipeQuery,
                                           Some(GETLimit(pipeLimit))))
    /\ UNCHANGED <<pipeCorpus, pipePca, pipeQuery, pipeLimit, workerResult, httpResponse>>

\* GET of the search route: 400 when `q` is absent or the empty string, 500
\* when performVectorSearch throws, else the results with the query.
GET(data, model, query, limitParam, embedOk) ==
    IF query = NullText \/ query = <<>>
    THEN [status |-> 400, body |-> [error |-> "Query parameter \"q\" is required"]]
    ELSE IF ~IsEmptyQuery(query) /\ ~embedOk
    THEN [status |-> 500,
          body |-> [error |-> "Failed to perform search", details |-> "embedding"]]
    ELSE [status |-> 200,
          body |-> [query |-> query,
                    results |-> ServerPipeline(data, model, query,
                                               Some(GETLimit(limitParam)))]]

\* The GET handler answers the request; the embedder's call succeeds or throws.
PipeGet ==
    /\ httpResponse = None
    /\ \E embedOk \in BOOLEAN :
         httpResponse' = Some(GET(pipeCorpus, pipePca, pipeQuery, pipeLimit, embedOk))
    /\ UNCHANGED <<pipeCorpus, pipePca, pipeQuery, pipeLimit, workerResult, serverResult>>

(***************************************************************************)
(* The search page: page.tsx                                               *)
(*                                                                         *)
(* The search effect arms a timer for the trimmed query whenever the       *)
(* query, the mode or performSearch changes, and its cleanup clears the    *)
(* timer armed before.  performSearch is async: it runs to its await       *)
(* (searchWorker's promise or fetch) and resumes when that settles; calls  *)
(* under way are not cancelled and carry no id.  The database and PCA the  *)
(* hosts answer from are the healthy ones.                                 *)
(***************************************************************************)
\* String.prototype.trim
RECURSIVE TrimStart(_)
TrimStart(s) == IF s # <<>> /\ IsSpace(s[1]) THEN TrimStart(Tail(s)) ELSE s

RECURSIVE TrimEnd(_)
TrimEnd(s) ==
    IF s # <<>> /\ IsSpace(s[Len(s)]) THEN TrimEnd(SubSeq(s, 1, Len(s) - 1)) ELSE s

Trim(s) == TrimEnd(TrimStart(s))

\* What the user may type into the search box.
PageQueries == {<<>>, T_blank, T_abc, T_bcd}

\* The limit performSearch asks each host for.
PageWorkerLimit == 24000
PageFetchLimit == 20

\* How an awaited search may end: searchWorker's promise resolves or rejects;
\* fetch gives the handler's 200 response, gives its error response, or throws.
Outcomes(via) == IF via = "worker" THEN {"resolve", "reject"}
                 ELSE {"ok", "error", "throw"}

\* The mounted page: the search effect has armed its timer for the empty query.
PageInit ==
    /\ pageQuery = <<>>
    /\ searchMode = "api"
    /\ pageWorkerReady = FALSE
    /\ pageResults = <<>>
    /\ pageLoading = FALSE
    /\ pageSearched = FALSE
    /\ timeoutId = Some(<<>>)
    /\ pageSearches = <<>>

\* The search effect after a render that changed one of its dependencies.
SearchEffect(query) == Some(Trim(query))

\* handleQueryChange(newQuery), then the search effect.
handleQueryChange ==
    \E newQuery \in PageQueries :
        /\ newQuery # pageQuery
        /\ pageQuery' = newQuery
        /\ timeoutId' = SearchEffect(newQuery)
        /\ UNCHANGED <<searchMode, pageWorkerReady, pageResults, pageLoading,
                       pageSearched, pageSearches>>

\* The provider reports the worker ready: the auto-switch effect sets the
\* mode to client, and the search effect runs again for the query in the box.
AutoSwitch ==
    /\ ~pageWorkerReady
    /\ pageWorkerReady' = TRUE
    /\ searchMode' = IF searchMode = "api" THEN "client" ELSE searchMode
    /\ timeoutId' = SearchEffect(pageQuery)
    /\ UNCHANGED <<pageQuery, pageResults, pageLoading, pageSearched, pageSearches>>

\* The timer fires: performSearch(searchQuery) up to its await.
performSearch ==
    /\ timeoutId # None
    /\ Len(pageSearches) < MaxPageSearches
    /\ LET searchQuery == timeoutId[1]
           via == IF searchMode = "client"
                  THEN (IF pageWorkerReady THEN "worker" ELSE "none")
                  ELSE "fetch"
       IN  IF TrimIsEmpty(searchQuery)
           THEN /\ pageResults' = <<>>
                /\ pageSearched' = FALSE
                /\ pageLoading' = pageLoading
                /\ pageSearches' = Append(pageSearches,
                       [query |-> searchQuery, via |-> "none", pc |-> "done",
                        outcome |-> "none"])
           ELSE /\ pageResults' = pageResults
                /\ pageSearched' = TRUE
                /\ pageLoading' = (via # "none")
                /\ pageSearches' = Append(pageSearches,
                       [query |-> searchQuery, via |-> via,
                        pc |-> IF via = "none" THEN "done" ELSE "await",
                        outcome |-> "none"])
    /\ timeoutId' = None
    /\ UNCHANGED <<pageQuery, searchMode, pageWorkerReady>>

\* The response of GET /api/search?q=<query>&limit=20.
FetchResponse(query, outcome) ==
    GET(Corpus2, Pca2, query, Some(PageFetchLimit), outcome = "ok")

\* response.results of the worker's answer to search(query, 24000).
WorkerResponse(query) == WorkerPipeline(Corpus2, Pca2, query, Some(PageWorkerLimit))

\* if (data.results) setResults(data.results): the list displayed after the
\* body of an HTTP response was read.
ResultsAfterBody(body, shown) ==
    IF "results" \in DOMAIN body THEN body.results ELSE shown

\* performSearch from its await on, for the call numbered i.
performSearchResume(i) ==
    /\ i \in 1..Len(pageSearches)
    /\ pageSearches[i].pc = "await"
    /\ \E outcome \in Outcomes(pageSearches[i].via) :
         /\ pageResults' =
              CASE outcome = "resolve" -> WorkerResponse(pageSearches[i].query)
                [] outcome \in {"reject", "throw"} -> <<>>
                [] OTHER -> ResultsAfterBody(
                                FetchResponse(pageSearches[i].query, outcome).body,
                                pageResults)
         /\ pageSearches' = [pageSearches EXCEPT ![i].pc = "done",
                                                 ![i].outcome = outcome]
    /\ pageLoading' = FALSE
    /\ UNCHANGED <<pageQuery, searchMode, pageWorkerReady, pageSearched, timeoutId>>

(***************************************************************************)
(* The environment                                                         *)
(***************************************************************************)
EnvInit ==
    \E c \in EnvConfigs :
        /\ dbFile = c.db
        /\ pcaFile = c.pca
        /\ modelSrc = c.model

\* The fault is removed: the files and the model source become good.
Repair ==
    /\ <<dbFile, pcaFile, modelSrc>> # <<Healthy.db, Healthy.pca, Healthy.model>>
    /\ dbFile' = Healthy.db
    /\ pcaFile' = Healthy.pca
    /\ modelSrc' = Healthy.model

vars == <<envVars, workerVars, serverVars, providerVars, pipeVars, pageVars>>

(***************************************************************************)
(* Specification of the worker host                                        *)
(***************************************************************************)
InitAll == EnvInit /\ WorkerInit /\ ServerInit /\ ProviderInit /\ PipeIdle /\ PageInit

WorkerNext ==
    \/ WSend /\ UNCHANGED <<serverVars, providerVars, pipeVars, pageVars>>
    \/ \E h \in 1..MaxMsgs : WDeliver(h) /\ UNCHANGED <<serverVars, providerVars, pipeVars, pageVars>>
    \/ \E h \in 1..MaxMsgs : WLoadDBDone(h) /\ UNCHANGED <<serverVars, providerVars, pipeVars, pageVars>>
    \/ \E h \in 1..MaxMsgs : WLoadPCADone(h) /\ UNCHANGED <<serverVars, providerVars, pipeVars, pageVars>>
    \/ \E h \in 1..MaxMsgs : WImportDone(h) /\ UNCHANGED <<serverVars, providerVars, pipeVars, pageVars>>
    \/ \E h \in 1..MaxMsgs : WPipelineDone(h) /\ UNCHANGED <<serverVars, providerVars, pipeVars, pageVars>>
    \/ \E h \in 1..MaxMsgs : WEmbedDone(h) /\ UNCHANGED <<serverVars, providerVars, pipeVars, pageVars>>
    \/ Repair /\ UNCHANGED <<workerVars, serverVars, providerVars, pipeVars, pageVars>>

SpecWorker == InitAll /\ [][WorkerNext]_vars

\* The worker host with the files and the model source held fixed.
WorkerFixedNext ==
    \/ WSend /\ UNCHANGED <<serverVars, providerVars, pipeVars, pageVars>>
    \/ \E h \in 1..MaxMsgs : WDeliver(h) /\ UNCHANGED <<serverVars, providerVars, pipeVars, pageVars>>
    \/ \E h \in 1..MaxMsgs : WLoadDBDone(h) /\ UNCHANGED <<serverVars, providerVars, pipeVars, pageVars>>
    \/ \E h \in 1..MaxMsgs : WLoadPCADone(h) /\ UNCHANGED <<serverVars, providerVars, pipeVars, pageVars>>
    \/ \E h \in 1..MaxMsgs : WImportDone(h) /\ UNCHANGED <<serverVars, providerVars, pipeVars, pageVars>>
    \/ \E h \in 1..MaxMsgs : WPipelineDone(h) /\ UNCHANGED <<serverVars, providerVars, pipeVars, pageVars>>
    \/ \E h \in 1..MaxMsgs : WEmbedDone(h) /\ UNCHANGED <<serverVars, providerVars, pipeVars, pageVars>>

SpecWorkerFixed == InitAll /\ [][WorkerFixedNext]_vars

(***************************************************************************)
(* Specification of the request-handler host                               *)
(***************************************************************************)
ServerNext ==
    \/ SCall /\ UNCHANGED <<workerVars, providerVars, pipeVars, pageVars>>
    \/ \E i \in 1..MaxCalls : SImportDone(i) /\ UNCHANGED <<workerVars, providerVars, pipeVars, pageVars>>
    \/ \E i \in 1..MaxCalls : SPipelineDone(i) /\ UNCHANGED <<workerVars, providerVars, pipeVars, pageVars>>
    \/ \E c \in 1..MaxCalls : SResume(c) /\ UNCHANGED <<workerVars, providerVars, pipeVars, pageVars>>
    \/ \E c \in 1..MaxCalls : SEmbedDone(c) /\ UNCHANGED <<workerVars, providerVars, pipeVars, pageVars>>
    \/ Repair /\ UNCHANGED <<workerVars, serverVars, providerVars, pipeVars, pageVars>>

SpecServer == InitAll /\ [][ServerNext]_vars

(***************************************************************************)
(* Specification of the SearchProvider (in the healthy environment)        *)
(***************************************************************************)
ProviderInitAll ==
    /\ dbFile = Healthy.db /\ pcaFile = Healthy.pca /\ modelSrc = Healthy.model
    /\ WorkerInit /\ ServerInit /\ ProviderInit /\ PipeIdle /\ PageInit

ProviderNext ==
    \/ PMount /\ UNCHANGED <<envVars, workerVars, serverVars, pipeVars, pageVars>>
    \/ POnMessage /\ UNCHANGED <<envVars, workerVars, serverVars, pipeVars, pageVars>>
    \/ PSearch /\ UNCHANGED <<envVars, workerVars, serverVars, pipeVars, pageVars>>
    \/ \E id \in 0..(MaxSearches - 1) : PTimeout(id) /\ UNCHANGED <<envVars, workerVars, serverVars, pipeVars, pageVars>>
    \/ PAdvance /\ UNCHANGED <<envVars, workerVars, serverVars, pipeVars, pageVars>>

SpecProvider == ProviderInitAll /\ [][ProviderNext]_vars

(***************************************************************************)
(* Specification of one search through both pipelines                      *)
(***************************************************************************)
PipeInitAll ==
    /\ dbFile = Healthy.db /\ pcaFile = Healthy.pca /\ modelSrc = Healthy.model
    /\ WorkerInit /\ ServerInit /\ ProviderInit /\ PipeInit /\ PageInit

PipeNext ==
    \/ PipeWorker /\ UNCHANGED <<envVars, workerVars, serverVars, providerVars, pageVars>>
    \/ PipeServer /\ UNCHANGED <<envVars, workerVars, serverVars, providerVars, pageVars>>
    \/ PipeGet /\ UNCHANGED <<envVars, workerVars, serverVars, providerVars, pageVars>>

SpecPipe == PipeInitAll /\ [][PipeNext]_vars

(***************************************************************************)
(* Specification of the search page                                        *)
(***************************************************************************)
PageInitAll ==
    /\ dbFile = Healthy.db /\ pcaFile = Healthy.pca /\ modelSrc = Healthy.model
    /\ WorkerInit /\ ServerInit /\ ProviderInit /\ PipeIdle /\ PageInit

PageNext ==
    \/ handleQueryChange /\ UNCHANGED <<envVars, workerVars, serverVars, providerVars, pipeVars>>
    \/ AutoSwitch /\ UNCHANGED <<envVars, workerVars, serverVars, providerVars, pipeVars>>
    \/ performSearch /\ UNCHANGED <<envVars, workerVars, serverVars, providerVars, pipeVars>>
    \/ \E i \in 1..MaxPageSearches :
         performSearchResume(i) /\ UNCHANGED <<envVars, workerVars, serverVars, providerVars, pipeVars>>

SpecPage == PageInitAll /\ [][PageNext]_vars

(***************************************************************************)
(* Specification of the SearchProvider connected to its worker: the        *)
(* messages the provider posts are the only ones the worker receives, and  *)
(* the provider handles the worker's messages in the order posted.         *)
(***************************************************************************)
\* The message event of the worker for the next message the provider posted.
SysForward ==
    /\ Len(msgs) < Len(toWorker)
    /\ Len(msgs) < MaxMsgs
    /\ LET m == toWorker[Len(msgs) + 1]
       IN  msgs' = Append(msgs,
                     IF m.type = "init"
                     THEN [type |-> "init", query |-> NullText, limit |-> None,
                           searchId |-> Undefined, pc |-> "queued", ctx |-> "init"]
                     ELSE [type |-> "search", query |-> m.query, limit |-> m.limit,
                           searchId |-> m.searchId, pc |-> "queued", ctx |-> "search"])
    /\ UNCHANGED <<envVars, workerStore, outbox, loadDBCalls, loadPCACalls, pipelineCalls,
                   serverVars, providerVars, pipeVars, pageVars>>

\* w.onmessage on the next message the worker posted.
SysOnMessage ==
    /\ workerRef
    /\ handled < Len(outbox)
    /\ OnMessage(outbox[handled + 1].msg)
    /\ handled' = handled + 1
    /\ UNCHANGED <<workerRef, searchIdRef, toWorker, now>>
    /\ UNCHANGED <<envVars, workerVars, serverVars, pipeVars, pageVars>>

SystemNext ==
    \/ PMount /\ UNCHANGED <<envVars, workerVars, serverVars, pipeVars, pageVars>>
    \/ PSearch /\ UNCHANGED <<envVars, workerVars, serverVars, pipeVars, pageVars>>
    \/ \E id \in 0..(MaxSearches - 1) : PTimeout(id) /\ UNCHANGED <<envVars, workerVars, serverVars, pipeVars, pageVars>>
    \/ PAdvance /\ UNCHANGED <<envVars, workerVars, serverVars, pipeVars, pageVars>>
    \/ SysForward
    \/ SysOnMessage
    \/ \E h \in 1..MaxMsgs : WDeliver(h) /\ UNCHANGED <<serverVars, providerVars, pipeVars, pageVars>>
    \/ \E h \in 1..MaxMsgs : WLoadDBDone(h) /\ UNCHANGED <<serverVars, providerVars, pipeVars, pageVars>>
    \/ \E h \in 1..MaxMsgs : WLoadPCADone(h) /\ UNCHANGED <<serverVars, providerVars, pipeVars, pageVars>>
    \/ \E h \in 1..MaxMsgs : WImportDone(h) /\ UNCHANGED <<serverVars, providerVars, pipeVars, pageVars>>
    \/ \E h \in 1..MaxMsgs : WPipelineDone(h) /\ UNCHANGED <<serverVars, providerVars, pipeVars, pageVars>>
    \/ \E h \in 1..MaxMsgs : WEmbedDone(h) /\ UNCHANGED <<serverVars, providerVars, pipeVars, pageVars>>
    \/ Repair /\ UNCHANGED <<workerVars, serverVars, providerVars, pipeVars, pageVars>>

SpecSystem == InitAll /\ [][SystemNext]_vars

(***************************************************************************)
(* Claims about the request-handler host (checked under SpecServer)        *)
(***************************************************************************)
LoadErrors == {"db", "pca", "import", "pipeline"}

\* C1: single-flight on the request-handler host.  However many
\* performVectorSearch calls start and interleave, the corpus file, the PCA
\* file and the embedding model are each loaded at most once, the first call
\* reads the corpus file, a completed initialization has loaded each exactly
\* once, only one initialization promise is ever created, and every call
\* suspended on the initialization awaits that promise.
C1_ServerSingleFlight ==
    /\ dbReads <= 1 /\ pcaReads <= 1 /\ pipelineCreates <= 1
    /\ Len(promises) <= 1
    /\ Len(calls) >= 1 => dbReads = 1
    /\ initializedSrv => dbReads = 1 /\ pcaReads = 1 /\ pipelineCreates = 1
    /\ \A c \in 1..Len(calls) :
         calls[c].pc = "awaitInit" => calls[c].awaits = initPromise /\ initPromise # 0

\* Two calls await the one load in flight, a third call came after it
\* succeeded, and each file was read once.
C1_Witness ==
    /\ Len(calls) >= 3
    /\ calls[1].awaits = 1 /\ calls[2].awaits = 1 /\ calls[3].awaits = 0
    /\ calls[3].pc = "done" /\ calls[3].outcome.kind = "results"
    /\ initializedSrv
    /\ dbReads = 1 /\ pcaReads = 1 /\ pipelineCreates = 1

\* C5: a call made after the fault was removed does not fail with the load
\* error of an earlier initialization attempt.
C5_RetryAfterLoadFailure ==
    \A c \in 1..Len(calls) :
        (calls[c].healthy /\ calls[c].pc = "done" /\ calls[c].outcome.kind = "error")
            => calls[c].outcome.error \notin LoadErrors

\* C6: once an initialization attempt has failed, the store is as it was
\* before the attempt: vectorDB, pcaModel and embedder null, initialized false.
C6_NoPartialPopulation ==
    (\E i \in 1..Len(promises) : promises[i].state = "rejected")
        => /\ vectorDB = None
           /\ pcaModelSrv = None
           /\ embedder = FALSE
           /\ initializedSrv = FALSE

\* C7: every call that awaited an initialization that failed ends with that
\* initialization's error and returns no results; none goes on to the
\* embedder.
C7_FailureReachesEveryWaiter ==
    \A c \in 1..Len(calls) :
        (calls[c].awaits # 0 /\ promises[calls[c].awaits].state = "rejected")
            => /\ calls[c].pc \in {"awaitInit", "done"}
               /\ calls[c].pc = "done"
                    => calls[c].outcome = Threw(promises[calls[c].awaits].error)

\* The call that started a load and a call that joined it have both ended
\* with the load's error.
C7_Witness ==
    /\ Len(calls) >= 2
    /\ Len(promises) = 1 /\ promises[1].state = "rejected"
    /\ \A c \in 1..2 :
         /\ calls[c].awaits = 1
         /\ calls[c].pc = "done"
         /\ calls[c].outcome = Threw(promises[1].error)

\* C15: empty-query short-circuit.  A performVectorSearch call whose query
\* is empty or only white space never reaches the embedding model (and so
\* neither the projection nor the scan), and ends by returning the empty
\* result list, never by raising an error.
C15_EmptyQueryShortCircuit ==
    \A c \in 1..Len(calls) :
        IsEmptyQuery(calls[c].query)
            => /\ calls[c].pc # "embed"
               /\ calls[c].pc = "done" => calls[c].outcome = Returned(<<>>)

(***************************************************************************)
(* Claims about the worker host (checked under SpecWorker)                 *)
(***************************************************************************)
RepliesTo(h) ==
    {i \in 1..Len(outbox) : outbox[i].re = h /\ outbox[i].msg.type = "results"}

\* C2: single-flight in the worker.  loadDB and loadPCA are each executed at
\* most once, whatever messages arrive while an initialization is in flight.
C2_WorkerSingleFlight == loadDBCalls <= 1 /\ loadPCACalls <= 1

\* C3: every `results` message the worker posts carries the searchId of the
\* `search` message it answers.
C3_SearchIdEchoed ==
    \A i \in 1..Len(outbox) :
        outbox[i].msg.type = "results"
            => SearchIdOf(outbox[i].msg) = msgs[outbox[i].re].searchId

\* C8: the worker is never initialized with a PCA model whose n_components
\* differs from the vector length of a non-empty corpus, and no search is
\* scored in such a state.
C8_DimensionMismatchFailsFast ==
    (initialized /\ numEntries > 0) => pcaModel[1].n_components = dim

\* C9: a `search` message whose handling has ended was answered by exactly
\* one `results` message, also when its inline initialization failed.
C9_SearchAlwaysAnswered ==
    \A h \in 1..Len(msgs) :
        (msgs[h].type = "search" /\ msgs[h].pc \in {"done", "rejected"})
            => Cardinality(RepliesTo(h)) = 1

\* C11: no failure while handling a `search` message escapes the listener as
\* an unhandled exception, and every `search` message whose handling has
\* ended has a `results` reply that carries either results or an error string.
C11_FailedSearchReported ==
    \A h \in 1..Len(msgs) :
        msgs[h].type = "search"
            => /\ msgs[h].pc # "rejected"
               /\ msgs[h].pc = "done"
                    => \E i \in RepliesTo(h) :
                           "results" \in DOMAIN outbox[i].msg \/ "error" \in DOMAIN outbox[i].msg

\* C23: init is idempotent once initialized.  The step that delivers an
\* `init` message while initialized is true ends the handling of that
\* message, calls no load, changes no module variable, and posts exactly one
\* message: `inited` with status 'ok' and the current numEntries.
C23_InitIdempotent ==
    [][\A h \in 1..Len(msgs) :
          (initialized /\ msgs[h].type = "init" /\ msgs[h].pc = "queued"
              /\ msgs'[h].pc # "queued")
          => /\ msgs'[h].pc = "done"
             /\ workerStore' = workerStore
             /\ loadDBCalls' = loadDBCalls
             /\ loadPCACalls' = loadPCACalls
             /\ pipelineCalls' = pipelineCalls
             /\ outbox' = Append(outbox,
                                 [re |-> h,
                                  msg |-> [type |-> "inited", status |-> "ok",
                                           numEntries |-> numEntries]])]_vars

\* An `init` message that came after the worker was initialized on a corpus
\* of three records has been answered with one message, `inited` ok with
\* numEntries 3, and the loads ran once.
C23_Witness ==
    /\ Len(msgs) = 2
    /\ msgs[1].pc = "done" /\ msgs[2].type = "init" /\ msgs[2].pc = "done"
    /\ initialized /\ numEntries = 3
    /\ loadDBCalls = 1 /\ loadPCACalls = 1
    /\ \A i \in 1..Len(outbox) :
         outbox[i].re = 2 => outbox[i].msg = [type |-> "inited", status |-> "ok",
                                             numEntries |-> 3]
    /\ Cardinality({i \in 1..Len(outbox) : outbox[i].re = 2}) = 1

\* The messages the worker posted while handling message h, in order.
RECURSIVE PostedFor(_, _)
PostedFor(out, h) ==
    IF out = <<>> THEN <<>>
    ELSE PostedFor(SubSeq(out, 1, Len(out) - 1), h)
         \o (IF out[Len(out)].re = h THEN <<out[Len(out)].msg>> ELSE <<>>)

\* The progress texts of the init branch, in the order of its load steps.
InitProgress == <<"Loading database...", "Loading PCA model...", "Loading embedding model...">>

\* C24: progress ordering of one `init` message.  What the worker has posted
\* for it is, in order, the first k of the three progress notifications and
\* then at most one `inited` message, nothing after that; k is 1, 2, 3 while
\* the handler waits for the corpus, the PCA model, the embedding model; the
\* handler ends with exactly one `inited` message; and `inited` ok after
\* progress notifications comes after all three, with the corpus, the PCA
\* model and the model handle loaded.
C24_ProgressOrdering ==
    \A h \in 1..Len(msgs) :
        msgs[h].type = "init" =>
            LET posted == PostedFor(outbox, h)
                k      == Cardinality({i \in 1..Len(posted) : posted[i].type = "status"})
                ended  == Len(posted) > k
            IN  /\ k <= 3 /\ Len(posted) <= k + 1
                /\ \A i \in 1..k : posted[i] = [type |-> "status", message |-> InitProgress[i]]
                /\ ended => posted[k + 1].type = "inited"
                /\ msgs[h].pc = "queued" => Len(posted) = 0
                /\ msgs[h].pc = "loadDB" => (k = 1 /\ ~ended)
                /\ msgs[h].pc = "loadPCA" => (k = 2 /\ ~ended)
                /\ msgs[h].pc \in {"import", "pipeline"} => (k = 3 /\ ~ended)
                /\ msgs[h].pc = "done" <=> ended
                /\ (ended /\ posted[k + 1].status = "ok")
                     => /\ k \in {0, 3}
                        /\ initialized /\ extractor
                        /\ entries # None /\ vectors # None /\ pcaModel # None
                /\ (ended /\ k = 0) => posted[1].status = "ok"

\* An `init` message on an uninitialized worker has been answered: the three
\* progress notifications in order, then `inited` ok.
C24_Witness ==
    \E h \in 1..Len(msgs) :
        /\ msgs[h].type = "init"
        /\ PostedFor(outbox, h) =
              <<[type |-> "status", message |-> "Loading database..."],
                [type |-> "status", message |-> "Loading PCA model..."],
                [type |-> "status", message |-> "Loading embedding model..."],
                [type |-> "inited", status |-> "ok", numEntries |-> 3]>>

\* C25: run-to-completion in the worker host.  The handling of a message has
\* ended before the handling of the next one begins, so at most one handler
\* is under way at any time, and the worker's messages are posted in the
\* order the messages they answer were received.
C25_RunToCompletion ==
    /\ \A g, h \in 1..Len(msgs) :
         (g < h /\ msgs[h].pc # "queued") => msgs[g].pc \in {"done", "rejected"}
    /\ \A i, j \in 1..Len(outbox) : i < j => outbox[i].re <= outbox[j].re

\* The results of the reply to search message h, one per reply that carries
\* results.
ResultsOf(h) ==
    {outbox[i].msg.results : i \in {j \in RepliesTo(h) : "results" \in DOMAIN outbox[j].msg}}

EmbeddingFailed ==
    {h \in 1..Len(msgs) :
        \E i \in RepliesTo(h) : /\ "error" \in DOMAIN outbox[i].msg
                                 /\ outbox[i].msg.error = "embedding"}

\* C22: embedding failure is isolated (checked under SpecWorkerFixed).  Once
\* the embedding of a search has failed, the corpus records, the vector
\* buffer, the PCA model, the model handle and the initialized flag are what
\* the loads made them, and every search answered with results is answered
\* with the results of the pipeline on the files, as if no search had failed.
C22_EmbeddingFailureIsolated ==
    EmbeddingFailed # {} =>
        /\ initialized
        /\ extractor
        /\ entries = Some(LoadedEntries(dbFile[1]))
        /\ vectors = Some(LoadedVectors(dbFile[1]))
        /\ numEntries = Len(dbFile[1]) /\ dim = LoadedDim(dbFile[1])
        /\ pcaModel = Some(pcaFile[1])
        /\ \A h \in 1..Len(msgs) :
             msgs[h].type = "search" =>
                \A r \in ResultsOf(h) :
                    r = WorkerPipeline(dbFile[1], pcaFile[1], msgs[h].query, msgs[h].limit)

\* The embedding of the first search failed, and the second search, with
\* the same query, was answered with the records the pipeline gives.
C22_Witness ==
    /\ Len(msgs) = 2
    /\ 1 \in EmbeddingFailed
    /\ msgs[2].type = "search" /\ msgs[2].query = msgs[1].query
    /\ \E r \in ResultsOf(2) :
         /\ Len(r) >= 2
         /\ r = WorkerPipeline(dbFile[1], pcaFile[1], msgs[2].query, msgs[2].limit)

\* The worker is ready: the corpus, its flat vector buffer of numEntries
\* rows of dim numbers, the PCA model and the model handle are all set.
StoreComplete ==
    /\ entries # None /\ vectors # None /\ pcaModel # None /\ extractor
    /\ Len(entries[1]) = numEntries
    /\ Len(vectors[1]) = numEntries * dim

\* The search handlers that have reached the scoring of their query: waiting
\* for the embedding, or answered with results.
Scoring ==
    {h \in 1..Len(msgs) :
        /\ msgs[h].type = "search"
        /\ \/ msgs[h].pc = "embed"
           \/ \E i \in RepliesTo(h) : "results" \in DOMAIN outbox[i].msg}

\* C30: readiness invariant of the worker.  In every reachable state
\* initialized implies that entries, vectors, pcaModel and extractor are set
\* and that vectors has numEntries * dim elements, and a search is being
\* scored or has been scored only if initialized is true; and no step takes
\* initialized from true to false.
C30_Readiness ==
    /\ []((initialized => StoreComplete) /\ (Scoring # {} => initialized))
    /\ [][initialized => initialized']_vars

\* After an init whose load failed, the fault was repaired and a search,
\* initializing the worker itself, was answered with scored records.
C30_Witness ==
    /\ initialized /\ StoreComplete /\ numEntries >= 2
    /\ \E i \in 1..Len(outbox) :
         outbox[i].msg.type = "inited" /\ outbox[i].msg.status = "error"
    /\ \E h \in Scoring : \E r \in ResultsOf(h) : Len(r) >= 1

(***************************************************************************)
(* Claims about the SearchProvider and its worker (checked under           *)
(* SpecSystem)                                                             *)
(***************************************************************************)
InitedFor(h) ==
    {i \in 1..Len(outbox) : outbox[i].re = h /\ outbox[i].msg.type = "inited"}

\* The `inited` messages among the worker's messages w.onmessage has handled.
InitedHandled == {i \in 1..handled : outbox[i].msg.type = "inited"}

\* C12: initialization failure is a persistent, reported state.  An `init`
\* message whose handling ended has exactly one `inited` message (none
\* before), which has status 'error' and an error string when the handling
\* failed; the worker starts no load of its own after that; and from the
\* moment the SearchProvider handles an `inited` error, with no `inited` ok
\* after it, workerReady is false and the status is the error status.
C12_InitFailurePersists ==
    /\ \A h \in 1..Len(msgs) :
         msgs[h].type = "init" =>
            /\ Cardinality(InitedFor(h)) = (IF msgs[h].pc = "done" THEN 1 ELSE 0)
            /\ (msgs[h].pc = "done" /\ ~initialized) =>
                  \A i \in InitedFor(h) :
                      /\ outbox[i].msg.status = "error"
                      /\ outbox[i].msg.error \in LoadErrors
    /\ loadDBCalls <= Cardinality({h \in 1..Len(msgs) : msgs[h].pc # "queued"})
    /\ (~initialized /\ \E h \in 1..Len(msgs) : msgs[h].type = "init" /\ msgs[h].pc = "done")
         => \A h \in 1..Len(msgs) : msgs[h].pc \in {"queued", "done"}
    /\ \A i \in InitedHandled :
         (outbox[i].msg.status = "error"
            /\ \A j \in InitedHandled : j > i => outbox[j].msg.status # "ok")
         => ~workerReady /\ initStatus = "Error loading database"

\* The initialization failed, the SearchProvider has handled the `inited`
\* error, the fault has since been removed and time has passed: the worker
\* has loaded nothing again and the provider still shows the error.
C12_Witness ==
    /\ \E i \in InitedHandled : outbox[i].msg.status = "error"
    /\ <<dbFile, pcaFile, modelSrc>> = <<Healthy.db, Healthy.pca, Healthy.model>>
    /\ now >= TickMs
    /\ loadDBCalls = 1
    /\ ~workerReady /\ initStatus = "Error loading database"

(***************************************************************************)
(* Claims about the SearchProvider (checked under SpecProvider)            *)
(***************************************************************************)
\* C10: timeout cleanup.  No entry of the pending map is older than 30
\* seconds; once the timer of a search has fired its entry is gone and its
\* promise is settled; a search whose timer found the entry stays rejected
\* with 'Search timeout', settled once, whatever `results` messages for it
\* arrive later.
C10_TimeoutCleanup ==
    \A id \in 0..(Len(searches) - 1) :
        LET q == searches[id + 1]
        IN  /\ id \in searchCallbacks => now - q.start <= SearchTimeoutMs
            /\ id \in searchCallbacks <=> q.state = "pending"
            /\ q.timer = "fired" => id \notin searchCallbacks /\ q.state # "pending"
            /\ (q.timer = "fired" /\ q.reason \notin {"results", "embedding"})
                 => q.state = "rejected" /\ q.reason = "Search timeout" /\ q.settles = 1
            /\ q.reason = "Search timeout" => q.timer = "fired" /\ q.settles = 1

\* A search timed out unanswered, and a `results` message for it arrived
\* after that.
C10_Witness ==
    \E id \in 0..(Len(searches) - 1) :
        /\ searches[id + 1].reason = "Search timeout"
        /\ searches[id + 1].late
        /\ id \notin searchCallbacks
        /\ now = searches[id + 1].start + SearchTimeoutMs

\* C29: exactly-once settlement in SearchProvider.  The ids handed out are
\* the numbers 0, 1, ... in order, so the search messages posted carry
\* pairwise distinct ids; the pending map holds id s exactly while the
\* promise of search s is unsettled; no promise had resolve or reject called
\* on it more than once; and a promise settled by a `results` message was
\* settled by a message whose searchId is its own id.
C29_ExactlyOnceSettlement ==
    /\ searchIdRef = Len(searches)
    /\ searchCallbacks \subseteq 0..(searchIdRef - 1)
    /\ \A i, j \in 1..Len(toWorker) :
         (i < j /\ toWorker[i].type = "search" /\ toWorker[j].type = "search")
             => toWorker[i].searchId # toWorker[j].searchId
    /\ \A s \in 0..(Len(searches) - 1) :
         LET p == searches[s + 1]
         IN  /\ s \in searchCallbacks <=> p.settles = 0
             /\ p.settles = 0 <=> p.state = "pending"
             /\ p.settles <= 1
             /\ p.state = "resolved" => p.reason = "results" /\ p.settledBy = s
             /\ p.settledBy # Undefined => p.settledBy = s /\ p.reason # "Search timeout"

\* The second search was resolved by its `results` message while the first
\* was still pending, and another `results` message for the second one
\* arrived after that and found no callback.
C29_Witness ==
    /\ Len(searches) = 2
    /\ searches[1].state = "pending" /\ 0 \in searchCallbacks
    /\ searches[2].state = "resolved" /\ searches[2].settledBy = 1
    /\ searches[2].late /\ searches[2].settles = 1

(***************************************************************************)
(* Claims about the two pipelines (checked under SpecPipe)                 *)
(***************************************************************************)
\* C4: cross-host equivalence.  On the same corpus, PCA model, query and
\* limit the worker and the request handler return the same record ids in
\* the same order with the same similarity values.
C4_CrossHostEquivalence ==
    (workerResult # None /\ serverResult # None) => workerResult = serverResult

\* The query vector of the search in hand.
PipeQueryVector == applyPCA(Embed(pipeQuery), pipePca)

\* scores[i].similarity as each host's scoring loop computes it for record i
\* of the corpus (i from 1).
WorkerScore(i) ==
    MathMin(RAdd(cosineSimilarityFlat(PipeQueryVector, LoadedVectors(pipeCorpus), i - 1,
                                      LoadedDim(pipeCorpus)),
                 WorkerBoost(pipeCorpus[i], QueryWords(pipeQuery))), One)
ServerScore(i) ==
    MathMin(RAdd(cosineSimilarity(PipeQueryVector, pipeCorpus[i].vector),
                 calculateKeywordBoost(pipeCorpus[i], QueryWords(pipeQuery))), One)

\* res lists records of the corpus by strictly falling score, records of
\* equal score by rising corpus position.
StablyRanked(res, score) ==
    \E p \in [1..Len(res) -> 1..Len(pipeCorpus)] :
        /\ \A k \in 1..Len(res) :
             /\ res[k].id = pipeCorpus[p[k]].id
             /\ res[k].similarity = score[p[k]]
        /\ \A k, l \in 1..Len(res) :
             k < l => \/ RLess(score[p[l]], score[p[k]])
                      \/ score[p[l]] = score[p[k]] /\ p[k] < p[l]

\* C13: stable tie-break.  In the result list of either host the records
\* are in non-increasing order of boosted similarity, and records of equal
\* boosted similarity are in corpus order.
C13_StableTieBreak ==
    /\ workerResult # None =>
          StablyRanked(workerResult[1], [i \in 1..Len(pipeCorpus) |-> WorkerScore(i)])
    /\ serverResult # None =>
          StablyRanked(serverResult[1], [i \in 1..Len(pipeCorpus) |-> ServerScore(i)])

\* Both hosts returned two different records of equal boosted similarity.
C13_Witness ==
    /\ workerResult # None /\ serverResult # None
    /\ Len(pipeCorpus) = 2 /\ pipeCorpus[1].id # pipeCorpus[2].id
    /\ \A res \in {workerResult[1], serverResult[1]} :
         /\ Len(res) = 2
         /\ res[1].similarity = res[2].similarity
         /\ res[1].id = pipeCorpus[1].id /\ res[2].id = pipeCorpus[2].id

\* The limit asked for by the request in hand: the default when none is given.
RequestedLimit == IF pipeLimit = None THEN DefaultLimit ELSE pipeLimit[1]

\* C14: limit semantics.  For a non-empty query each host returns exactly
\* min(limit, numRecords) results, hence at most `limit` of them and the
\* whole corpus when limit >= numRecords, for the limit as it arrives in the
\* worker's `search` message and in the GET request's `limit` parameter.
C14_LimitSemantics ==
    LET expected == IF RequestedLimit < Len(pipeCorpus) THEN RequestedLimit
                    ELSE Len(pipeCorpus)
    IN  ~IsEmptyQuery(pipeQuery) =>
            /\ workerResult # None => Len(workerResult[1]) = expected
            /\ serverResult # None => Len(serverResult[1]) = expected

\* C16: boost cap.  For every record of the corpus and the token list of the
\* query, the keyword boost either host applies is at most 0.35, equals the
\* sum of the matched field weights while that sum is below 0.35, and is
\* exactly 0.35 when the sum is 0.35 or more.
C16_BoostCap ==
    \A i \in 1..Len(pipeCorpus) :
        LET words  == QueryWords(pipeQuery)
            sum    == BoostSum(pipeCorpus[i], words)
            capped == IF sum >= BoostCap THEN Rat(BoostCap, 100) ELSE Rat(sum, 100)
        IN  /\ workerResult # None =>
                  /\ ~RLess(Rat(BoostCap, 100), WorkerBoost(LoadedEntries(pipeCorpus)[i], words))
                  /\ WorkerBoost(LoadedEntries(pipeCorpus)[i], words) = capped
            /\ serverResult # None =>
                  /\ ~RLess(Rat(BoostCap, 100), calculateKeywordBoost(pipeCorpus[i], words))
                  /\ calculateKeywordBoost(pipeCorpus[i], words) = capped

\* Both hosts scored a record whose matched field weights sum to more than
\* 0.35 (two query tokens, each found in several fields).
C16_Witness ==
    /\ workerResult # None /\ serverResult # None
    /\ \E i \in 1..Len(pipeCorpus) :
         /\ BoostSum(pipeCorpus[i], QueryWords(pipeQuery)) > 2 * BoostCap
         /\ WorkerBoost(LoadedEntries(pipeCorpus)[i], QueryWords(pipeQuery)) = Rat(BoostCap, 100)
         /\ calculateKeywordBoost(pipeCorpus[i], QueryWords(pipeQuery)) = Rat(BoostCap, 100)

\* similarity and boost of record i before they are added, per host.
WorkerRaw(i) ==
    cosineSimilarityFlat(PipeQueryVector, LoadedVectors(pipeCorpus), i - 1,
                         LoadedDim(pipeCorpus))
ServerRaw(i) == cosineSimilarity(PipeQueryVector, pipeCorpus[i].vector)
PipeBoost(i) == calculateKeywordBoost(pipeCorpus[i], QueryWords(pipeQuery))

\* x is similarity + boost when that is at most 1, and 1 otherwise.
Clamped(x, raw, boost) ==
    LET t == RAdd(raw, boost)
    IN  /\ ~RLess(One, x)
        /\ x = (IF RLess(One, t) THEN One ELSE t)

\* C17: score clamp.  Every similarity a host reports is min(similarity +
\* boost, 1.0) of a record of the corpus with the reported id, and is never
\* above 1.0.
C17_ScoreClamp ==
    /\ workerResult # None =>
          \A k \in 1..Len(workerResult[1]) :
              \E i \in 1..Len(pipeCorpus) :
                  /\ workerResult[1][k].id = pipeCorpus[i].id
                  /\ Clamped(workerResult[1][k].similarity, WorkerRaw(i), PipeBoost(i))
    /\ serverResult # None =>
          \A k \in 1..Len(serverResult[1]) :
              \E i \in 1..Len(pipeCorpus) :
                  /\ serverResult[1][k].id = pipeCorpus[i].id
                  /\ Clamped(serverResult[1][k].similarity, ServerRaw(i), PipeBoost(i))

\* The request handler reported exactly 1.0 for a record whose similarity is
\* below 1 and whose similarity plus boost is above 1.
C17_Witness ==
    /\ serverResult # None
    /\ Len(pipeCorpus) = 1
    /\ RLess(ServerRaw(1), One)
    /\ RLess(One, RAdd(ServerRaw(1), PipeBoost(1)))
    /\ Len(serverResult[1]) = 1
    /\ serverResult[1][1].similarity = One

Zero == <<0, 1>>

\* x is a number of the closed interval [0, 1].
InUnitInterval(x) == ~IsNaN(x) /\ ~RLess(x, Zero) /\ ~RLess(One, x)

\* C18: score range.  Every similarity either host returns lies in [0, 1].
C18_ScoreRange ==
    /\ workerResult # None =>
          \A k \in 1..Len(workerResult[1]) : InUnitInterval(workerResult[1][k].similarity)
    /\ serverResult # None =>
          \A k \in 1..Len(serverResult[1]) : InUnitInterval(serverResult[1][k].similarity)

\* dot(query, record i) divided by record i's magnitude, 1 standing in for a
\* magnitude of exactly zero.
AsymmetricSimilarity(i) ==
    LET v   == pipeCorpus[i].vector
        q   == PipeQueryVector
        dot == SumTo([j \in 1..Len(v) |-> q[j] * v[j]], Len(v))
        mag == MathSqrt(SumTo([j \in 1..Len(v) |-> v[j] * v[j]], Len(v)))
    IN  Rat(dot, IF mag = 0 THEN 1 ELSE mag)

\* C19: asymmetric similarity in both hosts.  The raw similarity behind every
\* score a host reports is dot(query, record) divided by the record's
\* magnitude only (0 for a zero record vector); the query vector's magnitude
\* is no part of the divisor, in the worker and in the request handler alike.
C19_AsymmetricSimilarity ==
    /\ workerResult # None =>
          /\ \A i \in 1..Len(pipeCorpus) : WorkerRaw(i) = AsymmetricSimilarity(i)
          /\ \A k \in 1..Len(workerResult[1]) :
                \E i \in 1..Len(pipeCorpus) :
                    /\ workerResult[1][k].id = pipeCorpus[i].id
                    /\ Clamped(workerResult[1][k].similarity, AsymmetricSimilarity(i),
                               PipeBoost(i))
    /\ serverResult # None =>
          /\ \A i \in 1..Len(pipeCorpus) : ServerRaw(i) = AsymmetricSimilarity(i)
          /\ \A k \in 1..Len(serverResult[1]) :
                \E i \in 1..Len(pipeCorpus) :
                    /\ serverResult[1][k].id = pipeCorpus[i].id
                    /\ Clamped(serverResult[1][k].similarity, AsymmetricSimilarity(i),
                               PipeBoost(i))

\* C21: an empty query is not an error at the HTTP handler.  A request whose
\* `q` parameter is the empty string or only white space is answered with a
\* success response carrying an empty results list.
C21_HttpEmptyQueryNotAnError ==
    (httpResponse # None /\ IsEmptyQuery(pipeQuery))
        => /\ httpResponse[1].status = 200
           /\ "results" \in DOMAIN httpResponse[1].body
           /\ httpResponse[1].body.results = <<>>

\* The reference of C26.  A token of the query is a maximal run of
\* characters that are not white space, longer than 2, lowercased; it is
\* named by the positions <<i, j>> of its first and last character, so that a
\* token written twice is two tokens.
RefTokenSpans(query) ==
    {sp \in (1..Len(query)) \X (1..Len(query)) :
        /\ sp[1] <= sp[2] /\ sp[2] - sp[1] + 1 > 2
        /\ \A k \in sp[1]..sp[2] : ~IsSpace(query[k])
        /\ sp[1] = 1 \/ IsSpace(query[sp[1] - 1])
        /\ sp[2] = Len(query) \/ IsSpace(query[sp[2] + 1])}

\* The nine (field value, weight) pairs of a record, weights in hundredths;
\* a missing field has the value NullText.
RefFields(entry) ==
    LET meta(key) == IF key \in DOMAIN entry.metadata THEN entry.metadata[key]
                     ELSE NullText
    IN  <<<<meta("extracted_diagnosis"), 20>>, <<meta("essential_diagnosis"), 18>>,
          <<meta("variant"), 12>>, <<meta("lineage"), 10>>, <<meta("organ"), 8>>,
          <<meta("microscopic"), 6>>, <<entry.diagnosis, 15>>, <<entry.organ, 5>>,
          <<entry.system, 5>>>>

\* The number of (field, token) pairs that match, weighted.
RECURSIVE RefSum(_, _, _, _)
RefSum(fields, f, query, spans) ==
    IF f > Len(fields) THEN 0
    ELSE LET value == fields[f][1]
             hits  == IF value = NullText \/ value = <<>> THEN {}
                      ELSE {sp \in spans :
                              Includes(ToLowerCase(value),
                                       ToLowerCase(SubSeq(query, sp[1], sp[2])))}
         IN  fields[f][2] * Cardinality(hits) + RefSum(fields, f + 1, query, spans)

RefBoost(entry, query) ==
    LET sum == RefSum(RefFields(entry), 1, query, RefTokenSpans(query))
    IN  Rat(IF sum > 35 THEN 35 ELSE sum, 100)

\* C26: keyword boost against the reference.  For every record of the corpus
\* and the query in hand, the boost each host computes from its token list
\* is min(0.35, sum over the nine weighted fields and over every query token
\* of the weight when the lowercased field contains the token).
C26_BoostReference ==
    \A i \in 1..Len(pipeCorpus) :
        /\ workerResult # None =>
              WorkerBoost(LoadedEntries(pipeCorpus)[i], QueryWords(pipeQuery))
                  = RefBoost(pipeCorpus[i], pipeQuery)
        /\ serverResult # None =>
              calculateKeywordBoost(pipeCorpus[i], QueryWords(pipeQuery))
                  = RefBoost(pipeCorpus[i], pipeQuery)

\* Both hosts scored a record in which one field holds two query tokens and
\* whose boost is below the cap: the field's weight was added once per token.
C26_Witness ==
    /\ workerResult # None /\ serverResult # None
    /\ Cardinality(RefTokenSpans(pipeQuery)) = 2
    /\ \E i \in 1..Len(pipeCorpus) :
         /\ RefBoost(pipeCorpus[i], pipeQuery) = Rat(30, 100)
         /\ WorkerBoost(LoadedEntries(pipeCorpus)[i], QueryWords(pipeQuery)) = Rat(30, 100)

(***************************************************************************)
(* Claims about the search page (SpecPage)                                 *)
(***************************************************************************)
\* What the response of a settled call of performSearch carried: the result
\* list of its query, or nothing when the search failed or was not made.
Delivered(call) ==
    CASE call.outcome = "resolve" -> WorkerResponse(call.query)
      [] call.outcome = "ok" -> FetchResponse(call.query, "ok").body.results
      [] OTHER -> <<>>

AllArrived ==
    /\ timeoutId = None
    /\ pageSearches # <<>>
    /\ \A i \in 1..Len(pageSearches) : pageSearches[i].pc = "done"

\* C27: latest query wins in the UI.  Once no timer is pending and every
\* search started has been answered, the list displayed is the one the
\* response to the most recently issued search delivered, when that search
\* succeeded; the response to an older search has not replaced it.
C27_LatestQueryWins ==
    (AllArrived /\ pageSearches[Len(pageSearches)].outcome \in {"ok", "resolve"})
        => pageResults = Delivered(pageSearches[Len(pageSearches)])

\* C28: a failed search clears the displayed results.  In every step in which
\* a search for a non-empty query fails (the worker's promise rejects, fetch
\* throws, or the body of the response has no results field), the list
\* displayed becomes empty and loading becomes false.
C28_FailedSearchClears ==
    [][\A i \in 1..Len(pageSearches) :
          (/\ pageSearches[i].pc = "await"
           /\ pageSearches'[i].pc = "done"
           /\ pageSearches'[i].outcome \in {"reject", "throw", "error"})
          => (pageResults' = <<>> /\ pageLoading' = FALSE)]_vars

====
